---- MODULE Spec2Model ----
(***************************************************************************)
(* A model of serial-query.py: the SearXNG crawl that runs a seed query    *)
(* and its modifier variants page by page, appends new (title, url) rows   *)
(* to a CSV file, and can be paused with Ctrl+C and resumed from a state   *)
(* file.                                                                   *)
(*                                                                         *)
(* Text that the program strips (titles and URLs) is a tuple of one-       *)
(* character strings, so that str.strip() is computed and not assumed.     *)
(* Query strings and file names are TLA+ strings.                          *)
(***************************************************************************)
EXTENDS Integers, Sequences, FiniteSets, TLC

(***************************************************************************)
(* Configuration and bounds                                                *)
(***************************************************************************)

\* TOP_N_RESULTS_PER_QUERY (line 24): the per-query quota, set small here.
TOP_N_RESULTS_PER_QUERY == 2

\* MAX_PAGES_TO_FETCH_PER_QUERY (line 29), set small here.
MAX_PAGES_TO_FETCH_PER_QUERY == 2

\* Number of modifier terms loaded from modifiers.csv.
NumModifiers == 2

\* Largest number of result items the backend returns on one page.
MaxPageItems == 2

\* The file name the configuration gives (line 25) and another file name
\* that a state file of an earlier run may carry.
ConfiguredCsv == "queries_with_urls.csv"
OtherCsv == "other.csv"
CsvFiles == {ConfiguredCsv, OtherCsv}

\* Python's None, for strings and for stripped text.
PyNone == "<None>"
NoText == <<"<None>">>

(***************************************************************************)
(* Text                                                                    *)
(***************************************************************************)

RECURSIVE LStrip(_)
LStrip(s) == IF s # <<>> /\ Head(s) = " " THEN LStrip(Tail(s)) ELSE s

RECURSIVE RStrip(_)
RStrip(s) ==
    IF s # <<>> /\ s[Len(s)] = " " THEN RStrip(SubSeq(s, 1, Len(s) - 1)) ELSE s

\* str(x).strip()
Strip(s) == RStrip(LStrip(s))

\* Python truthiness of result.get(key): present and not the empty string.
Truthy(s) == s # NoText /\ s # <<>>

\* Truthiness of a str-or-None variable.
Falsy(q) == q = PyNone \/ q = ""

TitleT == <<"t">>
UrlA == <<"a">>
UrlB == <<"b">>
UrlC == <<"c">>

\* What one search hit can look like: well-formed hits for three URLs, a hit
\* whose URL carries leading whitespace, a hit with a blank title, and a hit
\* without a title.
ResultItems ==
    { [title |-> TitleT, url |-> UrlA],
      [title |-> TitleT, url |-> <<" ", "a">>],
      [title |-> TitleT, url |-> UrlB],
      [title |-> TitleT, url |-> UrlC],
      [title |-> <<" ">>, url |-> UrlB],
      [title |-> NoText, url |-> UrlC] }

RECURSIVE SeqsUpTo(_, _)
SeqsUpTo(S, n) ==
    IF n = 0 THEN {<<>>}
    ELSE LET shorter == SeqsUpTo(S, n - 1)
         IN  shorter \cup {Append(s, x) : s \in {t \in shorter : Len(t) = n - 1}, x \in S}

\* The non-empty result lists a page can hold.
ResultPages == SeqsUpTo(ResultItems, MaxPageItems) \ {<<>>}

(***************************************************************************)
(* append_items_to_csv                                                     *)
(***************************************************************************)

RowUrls(rows) == {rows[k].url : k \in 1..Len(rows)}

\* Line 189: the item is a dict holding both keys.
IsValidItem(item) == item.url # NoText /\ item.title # NoText

IsNewUrl_without_lookup(url_str, seen) == TRUE
\* Line 200: url_str not in global_urls_in_csv
IsNewUrl(url_str, seen) == url_str \notin seen

Register_nothing(url_str, seen) == seen
\* Line 202: global_urls_in_csv.add(url_str)
Register(url_str, seen) == seen \cup {url_str}

\* Lines 186-202: the filtering loop, with the set it updates as it goes.
\* Returns new_unique_data and the set after the loop.
RECURSIVE FilterNewUnique(_, _, _)
FilterNewUnique(items, seen, acc) ==
    IF items = <<>> THEN [rows |-> acc, seen |-> seen]
    ELSE LET item == Head(items)
             url_str == Strip(item.url)
             title_str == Strip(item.title)
         IN  IF ~IsValidItem(item) THEN FilterNewUnique(Tail(items), seen, acc)
             ELSE IF url_str = <<>> \/ title_str = <<>>
                  THEN FilterNewUnique(Tail(items), seen, acc)
             ELSE IF IsNewUrl(url_str, seen)
                  THEN FilterNewUnique(Tail(items), Register(url_str, seen),
                                       Append(acc, [title |-> title_str, url |-> url_str]))
             ELSE FilterNewUnique(Tail(items), seen, acc)

Rollback_missing(seen, new_unique_data) == seen
Rollback_clears_set(seen, new_unique_data) == {}
\* Lines 220-221: discard every url of new_unique_data from the set.
Rollback(seen, new_unique_data) == seen \ RowUrls(new_unique_data)

WriteRows_replaces_file(rows, new_unique_data) == new_unique_data
WriteRows_first_row_only(rows, new_unique_data) == Append(rows, Head(new_unique_data))
\* Line 214: to_csv with mode='a' puts the new rows after those in the file.
WriteRows(rows, new_unique_data) == rows \o new_unique_data

\* Lines 183-222 as a function of the batch, the set, the file's rows and
\* whether to_csv raises IOError.  Returns the value returned, the set and
\* the rows afterwards, and whether the write was attempted and failed.
AppendItemsToCsv(items_to_add, seen, rows, write_fails) ==
    LET f == FilterNewUnique(items_to_add, seen, <<>>)
    IN  IF items_to_add = <<>> \/ f.rows = <<>>
        THEN [ret |-> 0, seen |-> f.seen, rows |-> rows, failed |-> FALSE]
        ELSE IF write_fails
        THEN [ret |-> 0, seen |-> Rollback(f.seen, f.rows), rows |-> rows, failed |-> TRUE]
        ELSE [ret |-> Len(f.rows), seen |-> f.seen, rows |-> WriteRows(rows, f.rows),
              failed |-> FALSE]

(***************************************************************************)
(* State                                                                   *)
(***************************************************************************)

VARIABLES
    pc,                           \* where the process is
    OUTPUT_CSV_FILENAME,          \* the global of line 25, rebound at line 142
    global_urls_in_csv,           \* line 94
    current_run_state_for_pause,  \* lines 87-92
    csv,                          \* the rows of each CSV file on disk
    state_file,                   \* searxng_scraper_state.json on disk
    saved_state,                  \* main: what load_saved_state_if_exists returned
    user_choice,                  \* main: the answer to the resume prompt
    initial_seed_query,           \* main
    resume_details,               \* main
    start_processing_idx,         \* main
    i,                            \* main: index of the for loop, 0-based
    items_added_for_this_query,   \* get_all_search_results_for_query
    page_number,                  \* get_all_search_results_for_query
    fetchLog,                     \* history: the FetchPage calls of the current Run
    firstFetch,                   \* history: the first FetchPage call of the session
    lastAppend,                   \* history: the latest append_items_to_csv call of the current Run
    appendCall,                   \* history: the latest direct call of append_items_to_csv
    exitLog                       \* history: how the process ended, and what failed

vars == << pc, OUTPUT_CSV_FILENAME, global_urls_in_csv, current_run_state_for_pause,
           csv, state_file, saved_state, user_choice, initial_seed_query,
           resume_details, start_processing_idx, i, items_added_for_this_query,
           page_number, fetchLog, firstFetch, lastAppend, appendCall, exitLog >>

(***************************************************************************)
(* Query variants                                                          *)
(***************************************************************************)

\* MODIFIER_TERMS (lines 42-63): the stripped, non-blank terms of modifiers.csv.
MODIFIER_TERMS == [k \in 1..NumModifiers |-> "m" \o ToString(k - 1)]

\* Lines 464-471.  The list is 1-based here; the loop index i is 0-based as
\* in the source, so entry i of the source is queries_to_process(seed)[i + 1].
queries_to_process(seed) ==
    << [query_str |-> seed, modifier_idx |-> -1, is_seed |-> TRUE] >>
    \o [k \in 1..NumModifiers |->
          [query_str |-> seed \o " " \o MODIFIER_TERMS[k],
           modifier_idx |-> k - 1, is_seed |-> FALSE]]

\* Lines 481-484: the entries that the search of the for loop accepts.
ResumeMatches(seed, modifier_idx) ==
    { n \in 0..NumModifiers :
        /\ ~queries_to_process(seed)[n + 1].is_seed
        /\ queries_to_process(seed)[n + 1].modifier_idx = modifier_idx }

Min(S) == CHOOSE x \in S : \A y \in S : x <= y

\* Lines 476-487: start_processing_idx.
StartIdx(seed, details) ==
    IF details.modifier_idx = -1 THEN 0
    ELSE IF ResumeMatches(seed, details.modifier_idx) # {}
         THEN Min(ResumeMatches(seed, details.modifier_idx))
         ELSE 0

\* Line 488: the page is reset when the modifier index is not found.
DetailsAfterLookup(seed, details) ==
    IF details.modifier_idx # -1 /\ ResumeMatches(seed, details.modifier_idx) = {}
    THEN [details EXCEPT !.page_number = 1]
    ELSE details

PageToStart_always_resumed(idx, start_idx, details) == details.page_number
\* Lines 496-498: page_to_start_fetching_from.
PageToStart(idx, start_idx, details) ==
    IF idx = start_idx THEN details.page_number ELSE 1

(***************************************************************************)
(* Checkpoint, in memory and on disk                                       *)
(***************************************************************************)

update_current_run_state_without_page(seed_q, mod_idx, current_q_str, next_page) ==
    [seed_query |-> seed_q,
     current_modifier_idx |-> mod_idx,
     current_query_being_processed |-> current_q_str,
     next_page_to_fetch |-> 1]
update_current_run_state_as_seed_variant(seed_q, mod_idx, current_q_str, next_page) ==
    [seed_query |-> seed_q,
     current_modifier_idx |-> -1,
     current_query_being_processed |-> current_q_str,
     next_page_to_fetch |-> next_page]
\* Lines 96-101.
update_current_run_state(seed_q, mod_idx, current_q_str, next_page) ==
    [seed_query |-> seed_q,
     current_modifier_idx |-> mod_idx,
     current_query_being_processed |-> current_q_str,
     next_page_to_fetch |-> next_page]

StateRecord(kind, seed, out, idx, query, page) ==
    [kind |-> kind, seed_query_original |-> seed, output_csv_filename |-> out,
     resume_modifier_idx |-> idx, resume_query_string |-> query,
     resume_page_number |-> page]

\* No state file, a file that is not JSON, a file lacking a required key.
AbsentState == StateRecord("absent", PyNone, PyNone, -1, PyNone, 1)
CorruptState == StateRecord("corrupt", PyNone, PyNone, -1, PyNone, 1)
IncompleteState == StateRecord("incomplete", PyNone, PyNone, -1, PyNone, 1)

\* A file whose JSON text is the value null: json.load returns None, and the
\* test `k in saved_state` of line 134 raises TypeError.
NullState == StateRecord("null", PyNone, PyNone, -1, PyNone, 1)

state_to_save_page_after ==
    StateRecord("valid",
                current_run_state_for_pause.seed_query,
                OUTPUT_CSV_FILENAME,
                current_run_state_for_pause.current_modifier_idx,
                current_run_state_for_pause.current_query_being_processed,
                current_run_state_for_pause.next_page_to_fetch + 1)
\* Lines 109-117: state_to_save.
state_to_save ==
    StateRecord("valid",
                current_run_state_for_pause.seed_query,
                OUTPUT_CSV_FILENAME,
                current_run_state_for_pause.current_modifier_idx,
                current_run_state_for_pause.current_query_being_processed,
                current_run_state_for_pause.next_page_to_fetch)

\* Lines 155-169: the set after load_existing_urls_from_csv has read `rows`.
load_existing_urls_from_csv(seen, rows) == seen \cup RowUrls(rows)

(***************************************************************************)
(* Initial states                                                          *)
(***************************************************************************)

RowA == [title |-> TitleT, url |-> UrlA]

RowB == [title |-> TitleT, url |-> UrlB]

RowD == [title |-> TitleT, url |-> <<"d">>]

\* What the CSV files hold when the process starts: each has a row from an
\* earlier run, the configured file one with a url no page returns again.
InitialCsv == [f \in CsvFiles |-> IF f = OtherCsv THEN <<RowA>> ELSE <<RowD>>]

\* The seed an earlier run was started with, and what the operator may type
\* at the seed prompt (already stripped).
EarlierSeed == "foo"
SeedInputs == {"", "bar"}

\* The (modifier index, page) pairs save_state_and_exit_gracefully can have
\* written: a page of the loop of line 356 for any variant, the end marker of
\* line 519 for the last variant, and an index of a modifier list that was
\* longer than the present one.
SavedPositions ==
    {<<idx, p>> : idx \in -1..(NumModifiers - 1), p \in 1..MAX_PAGES_TO_FETCH_PER_QUERY}
    \cup {<<NumModifiers - 1, MAX_PAGES_TO_FETCH_PER_QUERY + 1>>}
    \cup {<<NumModifiers, MAX_PAGES_TO_FETCH_PER_QUERY>>}

SavedQueryString(idx) ==
    IF idx = -1 THEN EarlierSeed ELSE EarlierSeed \o " m" \o ToString(idx)

\* The state files an earlier run can have left: none, a damaged one, one
\* for each saved position with the configured output file, and one that
\* names the other output file.
InitialStateFiles ==
    {AbsentState, CorruptState, IncompleteState, NullState}
    \cup { StateRecord("valid", EarlierSeed, ConfiguredCsv, pos[1],
                       SavedQueryString(pos[1]), pos[2]) : pos \in SavedPositions }
    \cup { StateRecord("valid", EarlierSeed, OtherCsv, 0, SavedQueryString(0), 1) }

\* The state files for which a failing read (151-153) or a failing removal
\* after a declined resume (449-450) is considered.  Neither failure depends
\* on what the file holds, and a file that fails stays as it is.
FaultyStateFiles ==
    { CorruptState,
      StateRecord("valid", EarlierSeed, ConfiguredCsv, 0, SavedQueryString(0), 1) }

\* The outcomes of an operation on the state file: it may fail for the files
\* above.
FileFaults(file) == IF file \in FaultyStateFiles THEN BOOLEAN ELSE {FALSE}

NoFetch == [made |-> FALSE, idx |-> -1, page |-> 0]
NoAppend == [called |-> FALSE, ret |-> 0, failed |-> FALSE, page |-> 0, new_urls |-> {}]
NoExit ==
    [cause |-> "none", at |-> "none", recorded |-> FALSE, write_failed |-> FALSE,
     remove_failed |-> FALSE, idx |-> -1, page |-> 0]
NoCall ==
    [called |-> FALSE, batch |-> <<>>, ret |-> 0, failed |-> FALSE, before |-> {},
     rows_before |-> <<>>, repeat |-> FALSE, prev_failed |-> FALSE]

Init ==
    /\ pc = "start"
    /\ OUTPUT_CSV_FILENAME = ConfiguredCsv
    /\ global_urls_in_csv = {}
    /\ current_run_state_for_pause = update_current_run_state(PyNone, -1, PyNone, 1)
    /\ csv = InitialCsv
    /\ state_file \in InitialStateFiles
    /\ saved_state = AbsentState
    /\ user_choice = ""
    /\ initial_seed_query = ""
    /\ resume_details = [modifier_idx |-> -1, page_number |-> 1]
    /\ start_processing_idx = 0
    /\ i = 0
    /\ items_added_for_this_query = 0
    /\ page_number = 1
    /\ fetchLog = <<>>
    /\ firstFetch = NoFetch
    /\ lastAppend = NoAppend
    /\ appendCall = NoCall
    /\ exitLog = NoExit

(***************************************************************************)
(* main: startup                                                           *)
(***************************************************************************)

\* Line 424.
LoadExistingUrls ==
    /\ pc = "start"
    /\ global_urls_in_csv' =
          load_existing_urls_from_csv(global_urls_in_csv, csv[OUTPUT_CSV_FILENAME])
    /\ pc' = "load_state"
    /\ UNCHANGED << OUTPUT_CSV_FILENAME, current_run_state_for_pause, csv, state_file,
                    saved_state, user_choice, initial_seed_query, resume_details,
                    start_processing_idx, i, items_added_for_this_query, page_number,
                    fetchLog, firstFetch, lastAppend, appendCall, exitLog >>

\* Lines 426-427 with load_saved_state_if_exists (126-153).  A file that
\* cannot be read (IOError, 151-153) is left where it is.
LoadSavedState(read_fails) ==
    /\ pc = "load_state"
    /\ read_fails \in FileFaults(state_file)
    /\ state_file.kind # "null"
    /\ IF state_file.kind # "absent" /\ read_fails
       THEN /\ saved_state' = AbsentState
            /\ OUTPUT_CSV_FILENAME' = OUTPUT_CSV_FILENAME
            /\ state_file' = state_file
            /\ pc' = "seed_prompt"
       ELSE IF state_file.kind = "valid"
       THEN /\ saved_state' = state_file
            /\ OUTPUT_CSV_FILENAME' =
                  IF state_file.output_csv_filename # OUTPUT_CSV_FILENAME
                  THEN state_file.output_csv_filename
                  ELSE OUTPUT_CSV_FILENAME
            /\ state_file' = state_file
            /\ pc' = "resume_prompt"
       ELSE /\ saved_state' = AbsentState
            /\ OUTPUT_CSV_FILENAME' = OUTPUT_CSV_FILENAME
            /\ state_file' = AbsentState      \* os.remove, lines 147 and 150
            /\ pc' = "seed_prompt"
    /\ UNCHANGED << global_urls_in_csv, current_run_state_for_pause, csv, user_choice,
                    initial_seed_query, resume_details, start_processing_idx, i,
                    items_added_for_this_query, page_number, fetchLog, firstFetch,
                    lastAppend, appendCall, exitLog >>

\* Lines 430-442, then 453 (the seed is set, so no prompt) and 463-488.
ResumeYes ==
    /\ pc = "resume_prompt"
    /\ ~Falsy(saved_state.seed_query_original)
    /\ user_choice' = "y"
    /\ initial_seed_query' = saved_state.seed_query_original
    /\ LET details == [modifier_idx |-> saved_state.resume_modifier_idx,
                       page_number |-> saved_state.resume_page_number]
           seed == saved_state.seed_query_original
       IN  /\ resume_details' = DetailsAfterLookup(seed, details)
           /\ start_processing_idx' = StartIdx(seed, details)
           /\ i' = StartIdx(seed, details)
    /\ global_urls_in_csv' =
          IF saved_state.output_csv_filename # ConfiguredCsv
          THEN load_existing_urls_from_csv({}, csv[OUTPUT_CSV_FILENAME])
          ELSE global_urls_in_csv
    /\ pc' = "main_loop"
    /\ UNCHANGED << OUTPUT_CSV_FILENAME, current_run_state_for_pause, csv, state_file,
                    saved_state, items_added_for_this_query, page_number, fetchLog,
                    firstFetch, lastAppend, appendCall, exitLog >>

RemoveDeclinedStateFile_never(file, remove_fails) == file
\* Lines 446-450: os.remove, which may raise OSError and leave the file.
RemoveDeclinedStateFile(file, remove_fails) ==
    IF remove_fails THEN file ELSE AbsentState

\* Lines 444-450.
ResumeNo(remove_fails) ==
    /\ pc = "resume_prompt"
    /\ remove_fails \in FileFaults(state_file)
    /\ user_choice' = "n"
    /\ state_file' = RemoveDeclinedStateFile(state_file, remove_fails)
    /\ exitLog' = [exitLog EXCEPT !.remove_failed = remove_fails]
    /\ saved_state' = AbsentState     \* not read again after line 440
    /\ pc' = "seed_prompt"
    /\ UNCHANGED << OUTPUT_CSV_FILENAME, global_urls_in_csv, current_run_state_for_pause,
                    csv, initial_seed_query, resume_details,
                    start_processing_idx, i, items_added_for_this_query, page_number,
                    fetchLog, firstFetch, lastAppend, appendCall >>

\* Lines 453-460 and 463-488 for a fresh start.
EnterSeed(seed) ==
    /\ pc = "seed_prompt"
    /\ initial_seed_query' = seed
    /\ IF seed = ""
       THEN /\ pc' = "done"
            /\ UNCHANGED << resume_details, start_processing_idx, i >>
       ELSE /\ pc' = "main_loop"
            /\ resume_details' = [modifier_idx |-> -1, page_number |-> 1]
            /\ start_processing_idx' =
                  StartIdx(seed, [modifier_idx |-> -1, page_number |-> 1])
            /\ i' = StartIdx(seed, [modifier_idx |-> -1, page_number |-> 1])
    /\ UNCHANGED << OUTPUT_CSV_FILENAME, global_urls_in_csv, current_run_state_for_pause,
                    csv, state_file, saved_state, user_choice,
                    items_added_for_this_query, page_number, fetchLog, firstFetch,
                    lastAppend, appendCall, exitLog >>

(***************************************************************************)
(* get_all_search_results_for_query                                        *)
(***************************************************************************)

\* The entry of queries_to_process the for loop of line 491 is at.
query_detail == queries_to_process(initial_seed_query)[i + 1]

QuotaMet_never(n) == FALSE
QuotaMet_off_by_one(n) == n > TOP_N_RESULTS_PER_QUERY
\* The comparison of lines 356 and 394: items_added_for_this_query has
\* reached TOP_N_RESULTS_PER_QUERY.
QuotaMet(n) == n >= TOP_N_RESULTS_PER_QUERY

LoopCondition_one_page_more(items, page) ==
    ~QuotaMet(items) /\ page <= MAX_PAGES_TO_FETCH_PER_QUERY + 1
\* Line 356: the condition of the while loop.
LoopCondition(items, page) ==
    ~QuotaMet(items) /\ page <= MAX_PAGES_TO_FETCH_PER_QUERY

NextPage_same(page) == page
\* Line 404: page_number += 1
NextPage(page) == page + 1

\* Lines 376-381: the hits that have a title and a url, stripped.
RECURSIVE title_url_pairs_from_page(_)
title_url_pairs_from_page(results) ==
    IF results = <<>> THEN <<>>
    ELSE LET result == Head(results)
             rest == title_url_pairs_from_page(Tail(results))
         IN  IF Truthy(result.title) /\ Truthy(result.url)
             THEN << [title |-> Strip(result.title), url |-> Strip(result.url)] >> \o rest
             ELSE rest

\* History: the urls, stripped, that the hits of a page offer, a hit counting
\* when it has a title and a url (377-380) neither of which is blank (192-196).
PageUrls(results) ==
    { Strip(results[k].url) : k \in { n \in 1..Len(results) :
          /\ Truthy(results[n].title) /\ Truthy(results[n].url)
          /\ Strip(results[n].title) # <<>>
          /\ Strip(results[n].url) # <<>> } }

FetchEntry(page, kind) == [page |-> page, kind |-> kind, outcome |-> "pending"]

\* The log with the outcome of the call in progress filled in.
Completed(log, outcome) == [log EXCEPT ![Len(log)].outcome = outcome]

\* Lines 491-500 and 351-354: the for loop takes the next variant and calls
\* get_all_search_results_for_query, or ends.
MainLoopHead ==
    /\ pc = "main_loop"
    /\ IF i < Len(queries_to_process(initial_seed_query))
       THEN /\ items_added_for_this_query' = 0
            /\ page_number' = PageToStart(i, start_processing_idx, resume_details)
            /\ pc' = "run_loop"
       ELSE /\ pc' = "cleanup"
            /\ UNCHANGED << items_added_for_this_query, page_number >>
    /\ UNCHANGED << OUTPUT_CSV_FILENAME, global_urls_in_csv, current_run_state_for_pause,
                    csv, state_file, saved_state, user_choice, initial_seed_query,
                    resume_details, start_processing_idx, i, fetchLog, firstFetch, lastAppend,
                    appendCall, exitLog >>

\* Lines 356-362: the loop condition, the checkpoint update, and the call of
\* fetch_page_from_searxng; or the loop ends and the function returns (409).
RunLoopHead ==
    /\ pc = "run_loop"
    /\ IF LoopCondition(items_added_for_this_query, page_number)
       THEN /\ current_run_state_for_pause' =
                  update_current_run_state(initial_seed_query, query_detail.modifier_idx,
                                           query_detail.query_str, page_number)
            /\ fetchLog' = Append(fetchLog, FetchEntry(page_number, "first"))
            /\ firstFetch' =
                  IF firstFetch.made THEN firstFetch
                  ELSE [made |-> TRUE, idx |-> query_detail.modifier_idx,
                        page |-> page_number]
            /\ pc' = "fetch"
       ELSE /\ pc' = "after_run"
            /\ UNCHANGED << current_run_state_for_pause, fetchLog, firstFetch >>
    /\ UNCHANGED << OUTPUT_CSV_FILENAME, global_urls_in_csv, csv, state_file, saved_state,
                    user_choice, initial_seed_query, resume_details, start_processing_idx,
                    i, items_added_for_this_query, page_number, lastAppend, appendCall, exitLog >>

\* Lines 374-407 for a non-empty result list: the pairs are appended, the
\* count grows, and the loop breaks on the quota, moves to the next page, or
\* breaks on the page limit.
ProcessPage(results, write_fails) ==
    \E pairs \in {title_url_pairs_from_page(results)} :
    \E r \in {AppendItemsToCsv(pairs, global_urls_in_csv, csv[OUTPUT_CSV_FILENAME],
                               write_fails)} :
    \E added \in {IF pairs # <<>> THEN items_added_for_this_query + r.ret
                  ELSE items_added_for_this_query} :
        /\ global_urls_in_csv' = IF pairs # <<>> THEN r.seen ELSE global_urls_in_csv
        /\ csv' = IF pairs # <<>> THEN [csv EXCEPT ![OUTPUT_CSV_FILENAME] = r.rows]
                  ELSE csv
        /\ items_added_for_this_query' = added
        /\ lastAppend' =
              IF pairs # <<>>
              THEN [called |-> TRUE, ret |-> r.ret, failed |-> r.failed,
                    page |-> page_number,
                    new_urls |-> PageUrls(results) \ global_urls_in_csv]
              ELSE lastAppend
        /\ IF pairs # <<>> /\ QuotaMet(added)
           THEN /\ page_number' = page_number
                /\ pc' = "after_run"
           ELSE /\ page_number' = NextPage(page_number)
                /\ pc' = IF NextPage(page_number) > MAX_PAGES_TO_FETCH_PER_QUERY
                         THEN "after_run" ELSE "run_loop"

\* Line 362 returns a non-empty list.
FetchReturnsResults(results, write_fails) ==
    /\ pc = "fetch"
    /\ fetchLog' = Completed(fetchLog, "results")
    /\ ProcessPage(results, write_fails)
    /\ UNCHANGED << OUTPUT_CSV_FILENAME, current_run_state_for_pause, state_file,
                    saved_state, user_choice, initial_seed_query, resume_details,
                    start_processing_idx, i, firstFetch, appendCall, exitLog >>

\* Line 362 returns an empty list: handle_zero_results_and_retry is entered
\* (367-369) and pauses (294-323).
FetchReturnsEmpty ==
    /\ pc = "fetch"
    /\ fetchLog' = Completed(fetchLog, "empty")
    /\ pc' = "pause"
    /\ UNCHANGED << OUTPUT_CSV_FILENAME, global_urls_in_csv, current_run_state_for_pause,
                    csv, state_file, saved_state, user_choice, initial_seed_query,
                    resume_details, start_processing_idx, i, items_added_for_this_query,
                    page_number, firstFetch, lastAppend, appendCall, exitLog >>

\* Lines 363-365 and 371-372: the retries of tenacity are exhausted.
FetchFails ==
    /\ pc = "fetch"
    /\ fetchLog' = Completed(fetchLog, "failure")
    /\ pc' = "after_run"
    /\ UNCHANGED << OUTPUT_CSV_FILENAME, global_urls_in_csv, current_run_state_for_pause,
                    csv, state_file, saved_state, user_choice, initial_seed_query,
                    resume_details, start_processing_idx, i, items_added_for_this_query,
                    page_number, firstFetch, lastAppend, appendCall, exitLog >>

(***************************************************************************)
(* handle_zero_results_and_retry                                           *)
(***************************************************************************)

should_break_after_retry_never(retry_attempt_results) == FALSE
\* Lines 330-332: _should_break_processing_this_query after the retry.
should_break_after_retry(retry_attempt_results) == retry_attempt_results = <<>>

\* Lines 303-329: the pause ends, by 'r' or by the timeout, and the page is
\* fetched again.
PauseEnds ==
    /\ pc = "pause"
    /\ fetchLog' = Append(fetchLog, FetchEntry(page_number, "retry"))
    /\ pc' = "retry"
    /\ UNCHANGED << OUTPUT_CSV_FILENAME, global_urls_in_csv, current_run_state_for_pause,
                    csv, state_file, saved_state, user_choice, initial_seed_query,
                    resume_details, start_processing_idx, i, items_added_for_this_query,
                    page_number, firstFetch, lastAppend, appendCall, exitLog >>

\* Line 329 returns a non-empty list, which line 369 hands to lines 374-407.
RetryReturnsResults(results, write_fails) ==
    /\ pc = "retry"
    /\ fetchLog' = Completed(fetchLog, "results")
    /\ ProcessPage(results, write_fails)
    /\ UNCHANGED << OUTPUT_CSV_FILENAME, current_run_state_for_pause, state_file,
                    saved_state, user_choice, initial_seed_query, resume_details,
                    start_processing_idx, i, firstFetch, appendCall, exitLog >>

\* Lines 330-332 and 371-372; without the break, lines 397-407 would go on
\* to the next page.
RetryReturnsEmpty ==
    /\ pc = "retry"
    /\ fetchLog' = Completed(fetchLog, "empty")
    /\ IF should_break_after_retry(<<>>)
       THEN /\ pc' = "after_run"
            /\ page_number' = page_number
       ELSE /\ page_number' = NextPage(page_number)
            /\ pc' = IF NextPage(page_number) > MAX_PAGES_TO_FETCH_PER_QUERY
                     THEN "after_run" ELSE "run_loop"
    /\ UNCHANGED << OUTPUT_CSV_FILENAME, global_urls_in_csv, current_run_state_for_pause,
                    csv, state_file, saved_state, user_choice, initial_seed_query,
                    resume_details, start_processing_idx, i, items_added_for_this_query,
                    firstFetch, lastAppend, appendCall, exitLog >>

\* Lines 333-335 and 371-372.
RetryFails ==
    /\ pc = "retry"
    /\ fetchLog' = Completed(fetchLog, "failure")
    /\ pc' = "after_run"
    /\ UNCHANGED << OUTPUT_CSV_FILENAME, global_urls_in_csv, current_run_state_for_pause,
                    csv, state_file, saved_state, user_choice, initial_seed_query,
                    resume_details, start_processing_idx, i, items_added_for_this_query,
                    page_number, firstFetch, lastAppend, appendCall, exitLog >>

(***************************************************************************)
(* main: between variants, completion, interruption                        *)
(***************************************************************************)

NextVariant_same(idx) == idx
NextVariant_skips_one(idx) == idx + 2
\* Line 491: the for loop takes the entry after the one it was at.
NextVariant(idx) == idx + 1

NextCheckpoint_stays_at_finished(seed, idx) == current_run_state_for_pause
\* Lines 515-519: the checkpoint once the variant at index idx is finished:
\* page 1 of the variant after it, or the end marker for the last one.
NextCheckpoint(seed, idx) ==
    IF idx + 1 < Len(queries_to_process(seed))
    THEN LET next_q_detail == queries_to_process(seed)[idx + 2]
         IN  update_current_run_state(seed, next_q_detail.modifier_idx,
                                      next_q_detail.query_str, 1)
    ELSE update_current_run_state(seed, queries_to_process(seed)[idx + 1].modifier_idx,
                                  queries_to_process(seed)[idx + 1].query_str,
                                  MAX_PAGES_TO_FETCH_PER_QUERY + 1)

\* Lines 509-519: get_all_search_results_for_query has returned.
AfterRun ==
    /\ pc = "after_run"
    /\ current_run_state_for_pause' = NextCheckpoint(initial_seed_query, i)
    /\ i' = NextVariant(i)
    /\ fetchLog' = <<>>
    /\ lastAppend' = NoAppend
    /\ pc' = "main_loop"
    /\ UNCHANGED << OUTPUT_CSV_FILENAME, global_urls_in_csv, csv, state_file, saved_state,
                    user_choice, initial_seed_query, resume_details, start_processing_idx,
                    items_added_for_this_query, page_number, firstFetch, appendCall,
                    exitLog >>

RemoveStateFile_never(file, remove_fails) == file
\* Lines 532-537: os.remove, which may raise OSError and leave the file.
RemoveStateFile(file, remove_fails) == IF remove_fails THEN file ELSE AbsentState

\* Lines 527-537: all variants are done; the state file, if there is one, is
\* removed.
Cleanup(remove_fails) ==
    /\ pc = "cleanup"
    /\ state_file' = IF state_file.kind = "absent" THEN state_file
                     ELSE RemoveStateFile(state_file, remove_fails)
    /\ exitLog' = [NoExit EXCEPT !.cause = "completed", !.at = pc,
                                 !.remove_failed =
                                     state_file.kind # "absent" /\ remove_fails]
    /\ pc' = "done"
    /\ UNCHANGED << OUTPUT_CSV_FILENAME, global_urls_in_csv, current_run_state_for_pause,
                    csv, saved_state, user_choice, initial_seed_query, resume_details,
                    start_processing_idx, i, items_added_for_this_query, page_number,
                    fetchLog, firstFetch, lastAppend, appendCall >>

\* The modifier index of the variant the for loop is at, NumModifiers when it
\* is past the last one.
PositionIdx ==
    IF i < Len(queries_to_process(initial_seed_query)) THEN query_detail.modifier_idx
    ELSE NumModifiers

\* sys.exit (lines 107 and 124): the process is gone, and with it everything
\* but the files.
ProcessExits(cause, recorded, write_failed) ==
    /\ pc' = "exited"
    /\ OUTPUT_CSV_FILENAME' = ConfiguredCsv
    /\ global_urls_in_csv' = {}
    /\ current_run_state_for_pause' = update_current_run_state(PyNone, -1, PyNone, 1)
    /\ saved_state' = AbsentState
    /\ user_choice' = ""
    /\ initial_seed_query' = ""
    /\ resume_details' = [modifier_idx |-> -1, page_number |-> 1]
    /\ start_processing_idx' = 0
    /\ i' = 0
    /\ items_added_for_this_query' = 0
    /\ page_number' = 1
    /\ fetchLog' = <<>>
    /\ firstFetch' = NoFetch
    /\ lastAppend' = NoAppend
    /\ exitLog' = [cause |-> cause, at |-> pc, recorded |-> recorded,
                   write_failed |-> write_failed, remove_failed |-> FALSE,
                   idx |-> PositionIdx, page |-> page_number]

\* save_state_and_exit_gracefully (103-124): nothing is written when no query
\* is recorded (105-107) or when the write raises IOError (122-123).
save_state_and_exit_gracefully(cause, write_fails) ==
    LET nothing_to_save ==
            Falsy(current_run_state_for_pause.current_query_being_processed)
    IN  /\ state_file' = IF nothing_to_save \/ write_fails THEN state_file
                         ELSE state_to_save
        /\ ProcessExits(cause, ~nothing_to_save, ~nothing_to_save /\ write_fails)

\* Lines 542-544: Ctrl+C at any point of main.  KeyboardInterrupt is no
\* Exception, so the handlers of lines 168, 333, 363 and 521 let it pass.
Interrupt(write_fails) ==
    /\ pc \in {"start", "load_state", "resume_prompt", "seed_prompt", "main_loop",
               "run_loop", "fetch", "pause", "retry", "after_run", "cleanup"}
    /\ save_state_and_exit_gracefully("interrupt", write_fails)
    /\ UNCHANGED << csv, appendCall >>

\* Lines 521-525: an exception that get_all_search_results_for_query does not
\* handle itself, raised while a page is being waited for or its results are
\* being processed (a hit that is no dict at 378, select failing at 307, a
\* write error other than IOError at 214).
UnexpectedError(write_fails) ==
    /\ pc \in {"fetch", "pause", "retry"}
    /\ save_state_and_exit_gracefully("fatal", write_fails)
    /\ UNCHANGED << csv, appendCall >>

\* Lines 545-549: load_saved_state_if_exists raises an exception it does not
\* handle (the TypeError of line 134); it passes through main to the last
\* handler, which calls save_state_and_exit_gracefully.
LoadSavedStateRaises ==
    /\ pc = "load_state"
    /\ state_file.kind = "null"
    /\ save_state_and_exit_gracefully("critical", FALSE)
    /\ UNCHANGED << csv, appendCall >>

Next ==
    \/ LoadExistingUrls
    \/ \E read_fails \in BOOLEAN : LoadSavedState(read_fails)
    \/ LoadSavedStateRaises
    \/ ResumeYes
    \/ \E remove_fails \in BOOLEAN : ResumeNo(remove_fails)
    \/ \E seed \in SeedInputs : EnterSeed(seed)
    \/ MainLoopHead
    \/ RunLoopHead
    \/ \E results \in ResultPages, write_fails \in BOOLEAN :
          FetchReturnsResults(results, write_fails)
    \/ FetchReturnsEmpty
    \/ FetchFails
    \/ PauseEnds
    \/ \E results \in ResultPages, write_fails \in BOOLEAN :
          RetryReturnsResults(results, write_fails)
    \/ RetryReturnsEmpty
    \/ RetryFails
    \/ AfterRun
    \/ \E remove_fails \in BOOLEAN : Cleanup(remove_fails)
    \/ \E write_fails \in BOOLEAN : Interrupt(write_fails)
    \/ \E write_fails \in BOOLEAN : UnexpectedError(write_fails)

Spec == Init /\ [][Next]_vars

\* One step of get_all_search_results_for_query: the calls it waits for
\* (the fetch, the pause, the retry) return, and its own statements run.
RunStep ==
    \/ RunLoopHead
    \/ \E results \in ResultPages, write_fails \in BOOLEAN :
          FetchReturnsResults(results, write_fails)
    \/ FetchReturnsEmpty
    \/ FetchFails
    \/ PauseEnds
    \/ \E results \in ResultPages, write_fails \in BOOLEAN :
          RetryReturnsResults(results, write_fails)
    \/ RetryReturnsEmpty
    \/ RetryFails

\* The campaign when every fetch and every pause returns.
SpecLive == Spec /\ WF_vars(RunStep)

(***************************************************************************)
(* append_items_to_csv called directly, any number of times                *)
(***************************************************************************)

\* The batches handed to append_items_to_csv: any list of items, items
\* without a url and the empty list of line 183 included.
BatchItems == ResultItems \cup {[title |-> TitleT, url |-> NoText]}
Batches == SeqsUpTo(BatchItems, MaxPageItems)

\* The rows an earlier run left in the configured file.
EarlierRows == {<<>>, <<RowA>>, <<RowB, RowA>>}

\* The file holds rows of an earlier run and line 424 has loaded their URLs.
InitAppend ==
    /\ pc = "append_calls"
    /\ OUTPUT_CSV_FILENAME = ConfiguredCsv
    /\ \E rows \in EarlierRows :
          /\ csv = [f \in CsvFiles |-> IF f = ConfiguredCsv THEN rows ELSE <<>>]
          /\ global_urls_in_csv = load_existing_urls_from_csv({}, rows)
    /\ current_run_state_for_pause = update_current_run_state(PyNone, -1, PyNone, 1)
    /\ state_file = AbsentState
    /\ saved_state = AbsentState
    /\ user_choice = ""
    /\ initial_seed_query = ""
    /\ resume_details = [modifier_idx |-> -1, page_number |-> 1]
    /\ start_processing_idx = 0
    /\ i = 0
    /\ items_added_for_this_query = 0
    /\ page_number = 1
    /\ fetchLog = <<>>
    /\ firstFetch = NoFetch
    /\ lastAppend = NoAppend
    /\ appendCall = NoCall
    /\ exitLog = NoExit

\* One call of append_items_to_csv (172-222) on the configured file.
AppendCall(items_to_add, write_fails) ==
    /\ pc = "append_calls"
    /\ LET r == AppendItemsToCsv(items_to_add, global_urls_in_csv,
                                 csv[OUTPUT_CSV_FILENAME], write_fails)
       IN  /\ global_urls_in_csv' = r.seen
           /\ csv' = [csv EXCEPT ![OUTPUT_CSV_FILENAME] = r.rows]
           /\ appendCall' =
                 [called |-> TRUE, batch |-> items_to_add, ret |-> r.ret,
                  failed |-> r.failed, before |-> global_urls_in_csv,
                  rows_before |-> csv[OUTPUT_CSV_FILENAME],
                  repeat |-> appendCall.called /\ appendCall.batch = items_to_add,
                  prev_failed |-> appendCall.called /\ appendCall.failed]
    /\ UNCHANGED << pc, OUTPUT_CSV_FILENAME, current_run_state_for_pause, state_file,
                    saved_state, user_choice, initial_seed_query, resume_details,
                    start_processing_idx, i, items_added_for_this_query, page_number,
                    fetchLog, firstFetch, lastAppend, exitLog >>

NextAppend == \E items_to_add \in Batches, write_fails \in BOOLEAN :
                  AppendCall(items_to_add, write_fails)

SpecAppend == InitAppend /\ [][NextAppend]_vars

(***************************************************************************)
(* A campaign that is interrupted once and started again, against a        *)
(* backend that answers every (query, page) the same way each time         *)
(***************************************************************************)

\* What fetch_page_from_searxng returns for page `page` of the variant with
\* modifier index `modifier_idx` (-1 is the seed itself): the seed's first
\* page fills the quota, its second page has a url no other page has; the
\* second page of the first modifier is empty.
Backend(modifier_idx, page) ==
    IF modifier_idx = -1
    THEN IF page = 1
         THEN << [title |-> TitleT, url |-> UrlA], [title |-> TitleT, url |-> UrlB] >>
         ELSE << [title |-> TitleT, url |-> UrlC] >>
    ELSE IF modifier_idx = 0
    THEN IF page = 1 THEN << [title |-> TitleT, url |-> UrlA] >> ELSE <<>>
    ELSE IF page = 1
         THEN << [title |-> TitleT, url |-> UrlB] >>
         ELSE << [title |-> TitleT, url |-> UrlA], [title |-> TitleT, url |-> UrlB] >>

\* get_all_search_results_for_query (351-409) run to its end against Backend:
\* the set afterwards and the (modifier index, page) pairs fetched.  An empty
\* page is empty again at the retry (329), which ends the Run (330-332).
RECURSIVE RunToEnd(_, _, _, _, _)
RunToEnd(modifier_idx, page, items, seen, fetched) ==
    IF ~LoopCondition(items, page) THEN [seen |-> seen, fetched |-> fetched]
    ELSE LET results == Backend(modifier_idx, page)
             now_fetched == fetched \cup {<< modifier_idx, page >>}
             pairs == title_url_pairs_from_page(results)
             r == AppendItemsToCsv(pairs, seen, <<>>, FALSE)
             added == IF pairs # <<>> THEN items + r.ret ELSE items
             now_seen == IF pairs # <<>> THEN r.seen ELSE seen
         IN  IF results = <<>> /\ should_break_after_retry(results)
             THEN [seen |-> seen, fetched |-> now_fetched]
             ELSE IF pairs # <<>> /\ QuotaMet(added)
             THEN [seen |-> now_seen, fetched |-> now_fetched]
             ELSE RunToEnd(modifier_idx, NextPage(page), added, now_seen, now_fetched)

\* The for loop of lines 491-519 run to its end from variant idx on, every
\* variant from its page 1.
RECURSIVE CampaignToEnd(_, _, _, _)
CampaignToEnd(seed, idx, seen, fetched) ==
    IF idx >= Len(queries_to_process(seed)) THEN [seen |-> seen, fetched |-> fetched]
    ELSE LET r == RunToEnd(queries_to_process(seed)[idx + 1].modifier_idx, 1, 0,
                           seen, fetched)
         IN  CampaignToEnd(seed, NextVariant(idx), r.seen, r.fetched)

\* The campaign for `seed` that nothing interrupts, started on the files of
\* Init: the urls in the configured file at its end and the pages it fetched.
Uninterrupted(seed) ==
    CampaignToEnd(seed, 0,
                  load_existing_urls_from_csv({}, InitialCsv[ConfiguredCsv]), {})

\* The campaign starts on the files of Init, without a state file.
InitResume ==
    /\ Init
    /\ state_file = AbsentState

\* The call of line 362 returns what Backend has for the page.
BackendAnswers ==
    /\ pc = "fetch"
    /\ IF Backend(query_detail.modifier_idx, page_number) = <<>>
       THEN FetchReturnsEmpty
       ELSE FetchReturnsResults(Backend(query_detail.modifier_idx, page_number), FALSE)

\* The call of line 329 returns what Backend has for the page.
BackendAnswersRetry ==
    /\ pc = "retry"
    /\ IF Backend(query_detail.modifier_idx, page_number) = <<>>
       THEN RetryReturnsEmpty
       ELSE RetryReturnsResults(Backend(query_detail.modifier_idx, page_number), FALSE)

\* Ctrl+C, for the first time; the state file is written.
InterruptOnce ==
    /\ exitLog.cause = "none"
    /\ Interrupt(FALSE)

\* The operator starts the script again (539-541).  The files are as the
\* process that ended left them; exitLog keeps how that process ended.
Restart ==
    /\ pc = "exited"
    /\ pc' = "start"
    /\ UNCHANGED << OUTPUT_CSV_FILENAME, global_urls_in_csv, current_run_state_for_pause,
                    csv, state_file, saved_state, user_choice, initial_seed_query,
                    resume_details, start_processing_idx, i, items_added_for_this_query,
                    page_number, fetchLog, firstFetch, lastAppend, appendCall, exitLog >>

\* The operator answers 'y' to the resume prompt; no write and no removal
\* fails.
NextResume ==
    \/ LoadExistingUrls
    \/ LoadSavedState(FALSE)
    \/ ResumeYes
    \/ \E seed \in SeedInputs : EnterSeed(seed)
    \/ MainLoopHead
    \/ RunLoopHead
    \/ BackendAnswers
    \/ PauseEnds
    \/ BackendAnswersRetry
    \/ AfterRun
    \/ Cleanup(FALSE)
    \/ InterruptOnce
    \/ Restart

SpecResume == InitResume /\ [][NextResume]_vars

(***************************************************************************)
(* Properties of append_items_to_csv, checked under SpecAppend             *)
(***************************************************************************)

NoDuplicateUrls(rows) ==
    \A j, k \in 1..Len(rows) : rows[j].url = rows[k].url => j = k

\* Every item of the batch that has a url has it, stripped, in `seen`.
AllUrlsKnown(items, seen) ==
    \A k \in 1..Len(items) : items[k].url # NoText => Strip(items[k].url) \in seen

\* The urls of the items of the batch that pass lines 189 and 196.
ValidUrls(items) ==
    { Strip(items[k].url) : k \in { n \in 1..Len(items) :
          /\ IsValidItem(items[n])
          /\ Strip(items[n].url) # <<>>
          /\ Strip(items[n].title) # <<>> } }

\* C1: after any sequence of calls of append_items_to_csv, failing ones
\* included, on a file whose rows seeded global_urls_in_csv, no two rows of
\* the file have the same url.
C1_SinkHasNoDuplicateUrls ==
    \A f \in CsvFiles : NoDuplicateUrls(csv[f])

\* A call that follows a failed one, gets the same url twice in two
\* spellings, and writes it once.
C1_Witness ==
    /\ appendCall.called /\ appendCall.prev_failed /\ ~appendCall.failed
    /\ Len(appendCall.batch) = 2
    /\ appendCall.batch[1].url # appendCall.batch[2].url
    /\ ValidUrls(appendCall.batch) = {UrlA}
    /\ IsValidItem(appendCall.batch[1]) /\ IsValidItem(appendCall.batch[2])
    /\ appendCall.ret = 1
    /\ Len(csv[ConfiguredCsv]) = Len(appendCall.rows_before) + 1

\* C2 as stated: a batch whose every url is already in global_urls_in_csv
\* makes the call return 0, write no row and leave the set as it was; and a
\* call with the batch of the call before it returns 0.
C2_AsStated ==
    appendCall.called =>
       /\ AllUrlsKnown(appendCall.batch, appendCall.before) =>
             /\ appendCall.ret = 0
             /\ csv[ConfiguredCsv] = appendCall.rows_before
             /\ global_urls_in_csv = appendCall.before
       /\ appendCall.repeat => appendCall.ret = 0

\* C2 as amended: the same, the second call returning 0 when the write of
\* the call before it did not fail.
C2_IdempotentOnSavedUrls ==
    appendCall.called =>
       /\ AllUrlsKnown(appendCall.batch, appendCall.before) =>
             /\ appendCall.ret = 0
             /\ csv[ConfiguredCsv] = appendCall.rows_before
             /\ global_urls_in_csv = appendCall.before
       /\ (appendCall.repeat /\ ~appendCall.prev_failed) => appendCall.ret = 0

\* A batch of two saved urls is appended a second time and nothing changes.
C2_Witness ==
    /\ appendCall.called /\ appendCall.repeat /\ ~appendCall.prev_failed
    /\ ValidUrls(appendCall.batch) = {UrlB, UrlC}
    /\ AllUrlsKnown(appendCall.batch, appendCall.before)
    /\ appendCall.ret = 0
    /\ csv[ConfiguredCsv] = appendCall.rows_before

\* C3: when the write fails, global_urls_in_csv is what it was before the
\* call.
C3_RollbackOnWriteFailure ==
    (appendCall.called /\ appendCall.failed) =>
        global_urls_in_csv = appendCall.before

\* A failed write of a batch of two new urls, the set holding another one.
C3_Witness ==
    /\ appendCall.called /\ appendCall.failed
    /\ Cardinality(ValidUrls(appendCall.batch) \ appendCall.before) = 2
    /\ appendCall.before # {}
    /\ appendCall.ret = 0

(***************************************************************************)
(* Properties of the campaign, checked under Spec                          *)
(***************************************************************************)

\* get_all_search_results_for_query is running, or has just returned.
InRun == pc \in {"run_loop", "fetch", "pause", "retry", "after_run"}

\* A FetchPage call is in progress or, during the pause, about to be made.
Fetching == pc \in {"fetch", "pause", "retry"}

\* C4: a failed write is told apart from a write of no rows, so the Run does
\* not go on to the page after the one whose write failed.
C4_WriteFailureSurfaced ==
    (Fetching /\ lastAppend.called /\ lastAppend.failed) =>
        page_number # lastAppend.page + 1

C6_NoFetchOnceQuotaMet ==
    Fetching => ~(items_added_for_this_query >= TOP_N_RESULTS_PER_QUERY)

\* The Run ended on the quota with a page still left.
C6_Witness ==
    /\ pc = "after_run"
    /\ items_added_for_this_query >= TOP_N_RESULTS_PER_QUERY
    /\ page_number < MAX_PAGES_TO_FETCH_PER_QUERY
    /\ fetchLog # <<>>

\* C7: no FetchPage call, first attempt or retry, is for a page above
\* MAX_PAGES_TO_FETCH_PER_QUERY.
C7_NoFetchBeyondMaxPages ==
    \A k \in 1..Len(fetchLog) : fetchLog[k].page <= MAX_PAGES_TO_FETCH_PER_QUERY

\* The Run ended on the page limit, below the quota, its last call a retry
\* for the last page.
C7_Witness ==
    /\ pc = "after_run"
    /\ page_number = MAX_PAGES_TO_FETCH_PER_QUERY + 1
    /\ items_added_for_this_query < TOP_N_RESULTS_PER_QUERY
    /\ fetchLog # <<>>
    /\ fetchLog[Len(fetchLog)] =
          [page |-> MAX_PAGES_TO_FETCH_PER_QUERY, kind |-> "retry", outcome |-> "results"]

\* C8: an empty first attempt is followed by the pause and one retry of the
\* same page and by nothing else; a retry is made only then; a retry that is
\* empty or fails is the last call of the Run; and a Run all of whose calls
\* came back empty made two calls, both for its first page.
C8_StalledPageOneShot ==
    /\ \A k \in 1..Len(fetchLog) :
          (fetchLog[k].kind = "first" /\ fetchLog[k].outcome = "empty") =>
             IF k = Len(fetchLog) THEN pc = "pause"
             ELSE /\ fetchLog[k + 1].kind = "retry"
                  /\ fetchLog[k + 1].page = fetchLog[k].page
    /\ \A k \in 1..Len(fetchLog) :
          fetchLog[k].kind = "retry" =>
             /\ k > 1
             /\ fetchLog[k - 1].kind = "first"
             /\ fetchLog[k - 1].outcome = "empty"
             /\ fetchLog[k - 1].page = fetchLog[k].page
    /\ \A k \in 1..Len(fetchLog) :
          (fetchLog[k].kind = "retry" /\ fetchLog[k].outcome \in {"empty", "failure"}) =>
             k = Len(fetchLog) /\ pc = "after_run"
    /\ (/\ pc = "after_run"
        /\ fetchLog # <<>>
        /\ \A k \in 1..Len(fetchLog) : fetchLog[k].outcome = "empty") =>
          /\ Len(fetchLog) = 2
          /\ fetchLog[1].page = fetchLog[2].page
          /\ fetchLog[1].page = IF i = start_processing_idx
                                THEN resume_details.page_number ELSE 1

\* A variant after the first one got nothing but empty pages: two calls for
\* page 1, and the Run has returned.
C8_Witness ==
    /\ pc = "after_run"
    /\ i > start_processing_idx
    /\ fetchLog = << [page |-> 1, kind |-> "first", outcome |-> "empty"],
                     [page |-> 1, kind |-> "retry", outcome |-> "empty"] >>

\* The operator has accepted the state file of an earlier run, and the
\* variant it names is in queries_to_process.
ResumedAtVariant ==
    /\ user_choice = "y"
    /\ saved_state.kind = "valid"
    /\ \/ saved_state.resume_modifier_idx = -1
       \/ saved_state.resume_modifier_idx \in 0..(NumModifiers - 1)

\* C9: after an accepted resume at variant k and page p, no FetchPage call is
\* for a variant before k, the first call of the session is for variant k at
\* page p, and every later variant starts at page 1.
C9_ResumeAtCheckpoint ==
    ResumedAtVariant =>
       /\ Fetching => query_detail.modifier_idx >= saved_state.resume_modifier_idx
       /\ firstFetch.made =>
             /\ firstFetch.idx = saved_state.resume_modifier_idx
             /\ firstFetch.page = saved_state.resume_page_number
       /\ (fetchLog # <<>> /\ query_detail.modifier_idx > saved_state.resume_modifier_idx)
             => fetchLog[1].page = 1

\* Resumed at the first modifier's variant on a page after the first: the
\* session's first call was for that page, and the next variant is now being
\* fetched from page 1.
C9_Witness ==
    /\ ResumedAtVariant
    /\ saved_state.resume_modifier_idx = 0
    /\ saved_state.resume_page_number > 1
    /\ firstFetch = [made |-> TRUE, idx |-> 0, page |-> saved_state.resume_page_number]
    /\ pc = "fetch"
    /\ query_detail.modifier_idx = 1
    /\ fetchLog = << FetchEntry(1, "first") >>

\* C10: while the campaign is being processed, the checkpoint in memory does
\* not name a page of the current variant whose rows are already in the file,
\* and does not lie beyond the page the Run is at.
C10_CheckpointNamesUnresolvedWork ==
    InRun =>
       /\ ~ /\ lastAppend.called
            /\ lastAppend.ret > 0
            /\ current_run_state_for_pause.current_query_being_processed
                  = query_detail.query_str
            /\ current_run_state_for_pause.next_page_to_fetch = lastAppend.page
       /\ current_run_state_for_pause.current_query_being_processed
             = query_detail.query_str
          => current_run_state_for_pause.next_page_to_fetch <= page_number

(***************************************************************************)
(* Checkpointing and exits, checked under Spec                             *)
(***************************************************************************)

\* The checkpoint in memory names variant q_detail of `seed` at `page`.
CheckpointIs(seed, q_detail, page) ==
    /\ current_run_state_for_pause.seed_query = seed
    /\ current_run_state_for_pause.current_modifier_idx = q_detail.modifier_idx
    /\ current_run_state_for_pause.current_query_being_processed = q_detail.query_str
    /\ current_run_state_for_pause.next_page_to_fetch = page

\* The record `file` is a state file that names the variant with modifier
\* index idx of its seed, at `page`.
RecordNames(file, idx, page) ==
    /\ file.kind = "valid"
    /\ file.resume_modifier_idx = idx
    /\ file.resume_page_number = page
    /\ idx \in -1..(NumModifiers - 1)
    /\ file.resume_query_string =
          queries_to_process(file.seed_query_original)[idx + 2].query_str

\* The process has exited through save_state_and_exit_gracefully, which
\* wrote the state file.
ExitedWithFlush(cause) ==
    /\ pc = "exited"
    /\ exitLog.cause = cause
    /\ exitLog.recorded /\ ~exitLog.write_failed

\* C11: while a FetchPage call for page p of variant q is in progress (the
\* fetch with its pacing sleep, the pause of a stalled page, the retry), the
\* checkpoint in memory is (seed, modifier index of q, q, p); and the state
\* file an interrupt writes during the fetch names q and p.
C11_CheckpointNamesPageInProgress ==
    /\ Fetching => CheckpointIs(initial_seed_query, query_detail, page_number)
    /\ (ExitedWithFlush("interrupt") /\ exitLog.at \in {"fetch", "pause", "retry"})
          => RecordNames(state_file, exitLog.idx, exitLog.page)

\* Ctrl+C during the retry of page 2 of the last variant left a state file
\* that names that variant and page 2.
C11_Witness ==
    /\ ExitedWithFlush("interrupt")
    /\ exitLog.at = "retry"
    /\ exitLog.idx = NumModifiers - 1
    /\ exitLog.page = 2
    /\ RecordNames(state_file, NumModifiers - 1, 2)
    /\ state_file.seed_query_original = "bar"

\* The for loop of line 491 is running or has just ended.
InCampaign == pc \in {"main_loop", "run_loop", "fetch", "pause", "retry", "after_run",
                      "cleanup"}

\* The same, and a checkpoint has been recorded in memory.
CampaignStarted ==
    /\ InCampaign
    /\ ~Falsy(current_run_state_for_pause.current_query_being_processed)

\* The step is Ctrl+C ending the process.
InterruptStep == pc # "exited" /\ pc' = "exited" /\ exitLog'.cause = "interrupt"

\* The state file after the step holds the checkpoint that was in memory
\* before it.
CheckpointFlushed ==
    /\ state_file'.kind = "valid"
    /\ state_file'.seed_query_original = current_run_state_for_pause.seed_query
    /\ state_file'.output_csv_filename = OUTPUT_CSV_FILENAME
    /\ state_file'.resume_modifier_idx = current_run_state_for_pause.current_modifier_idx
    /\ state_file'.resume_query_string =
          current_run_state_for_pause.current_query_being_processed
    /\ state_file'.resume_page_number = current_run_state_for_pause.next_page_to_fetch

\* C12 as stated: Ctrl+C at any point once the campaign has started writes the
\* state file with the values of the checkpoint last recorded in memory, and
\* ends the process with no further fetch or append.
C12_AsStated ==
    [][ /\ pc # "exited"
        /\ (InterruptStep /\ CampaignStarted) => (CheckpointFlushed /\ csv' = csv) ]_vars

\* C12 as amended: the same, unless the write of the state file fails; then,
\* and when no checkpoint has been recorded yet, the state file is left as it
\* was.  In every case the process ends there.
C12_InterruptFlushesCheckpoint ==
    [][ /\ pc # "exited"
        /\ InterruptStep =>
              /\ csv' = csv
              /\ exitLog'.recorded =
                    ~Falsy(current_run_state_for_pause.current_query_being_processed)
              /\ IF exitLog'.recorded /\ ~exitLog'.write_failed
                 THEN CheckpointFlushed
                 ELSE state_file' = state_file ]_vars

\* Ctrl+C during the pause of a stalled page, inside
\* handle_zero_results_and_retry, left a state file of this session.
C12_Witness ==
    /\ ExitedWithFlush("interrupt")
    /\ exitLog.at = "pause"
    /\ state_file.kind = "valid"
    /\ state_file.seed_query_original = "bar"
    /\ state_file.resume_page_number = exitLog.page

C14_AsStated ==
    (pc = "done" /\ exitLog.cause = "completed") => state_file.kind = "absent"

\* C14 as amended: the same, unless removing the state file failed, which
\* leaves it in place.
C14_NoStateFileAfterCompletion ==
    (pc = "done" /\ exitLog.cause = "completed") =>
        IF exitLog.remove_failed
        THEN state_file.kind # "absent"
        ELSE state_file.kind = "absent"

\* A session resumed from a state file ran to completion and removed it.
C14_Witness ==
    /\ pc = "done"
    /\ exitLog.cause = "completed"
    /\ ~exitLog.remove_failed
    /\ user_choice = "y"
    /\ saved_state.kind = "valid"
    /\ state_file.kind = "absent"

\* The outcome of the latest FetchPage call of the log.
LastOutcome(log) == IF log = <<>> THEN "none" ELSE log[Len(log)].outcome

\* C15: when a first fetch or a retry fails for good, the Run returns the
\* count it has, the state file is not touched and the process goes on: the
\* for loop moves to the next variant, which, if there is one, starts at
\* page 1 with a count of 0.
C15_FetchFailureStopsOnlyVariant ==
    [][ /\ (pc \in {"fetch", "retry"} /\ LastOutcome(fetchLog') = "failure") =>
              /\ pc' = "after_run"
              /\ items_added_for_this_query' = items_added_for_this_query
              /\ state_file' = state_file
              /\ csv' = csv
        /\ (pc = "after_run" /\ LastOutcome(fetchLog) = "failure" /\ pc' # "exited") =>
              /\ pc' = "main_loop"
              /\ i' = i + 1
              /\ state_file' = state_file
        /\ (/\ pc = "main_loop"
            /\ i > start_processing_idx
            /\ i < Len(queries_to_process(initial_seed_query))
            /\ pc' # "exited") =>
              /\ pc' = "run_loop"
              /\ i' = i
              /\ page_number' = 1
              /\ items_added_for_this_query' = 0 ]_vars

\* The retry of a stalled page failed after the variant, not the last one,
\* had saved an item: the Run has returned and there is no state file.
C15_Witness ==
    /\ pc = "after_run"
    /\ fetchLog # <<>>
    /\ fetchLog[Len(fetchLog)].kind = "retry"
    /\ LastOutcome(fetchLog) = "failure"
    /\ items_added_for_this_query > 0
    /\ i < NumModifiers
    /\ state_file.kind = "absent"

\* The step is the exit of lines 521-525.
FatalStep == pc # "exited" /\ pc' = "exited" /\ exitLog'.cause = "fatal"

\* The state file after the step names the variant and the page the Run was
\* at before it.
PositionFlushed ==
    /\ state_file'.kind = "valid"
    /\ state_file'.seed_query_original = initial_seed_query
    /\ state_file'.resume_modifier_idx = query_detail.modifier_idx
    /\ state_file'.resume_query_string = query_detail.query_str
    /\ state_file'.resume_page_number = page_number

\* C16 as stated: an exception that get_all_search_results_for_query lets
\* through ends the run: the state file is written with the variant and page
\* in progress, no later variant is processed and the rows in the file stay.
C16_AsStated ==
    [][ /\ pc # "exited"
        /\ FatalStep => (PositionFlushed /\ csv' = csv) ]_vars

\* C16 as amended: the same, unless the write of the state file fails, which
\* leaves the state file as it was.
C16_FatalErrorFlushesCheckpoint ==
    [][ /\ pc # "exited"
        /\ FatalStep =>
              /\ csv' = csv
              /\ IF exitLog'.write_failed THEN state_file' = state_file
                 ELSE PositionFlushed ]_vars

\* An exception while page 2 of the first modifier's variant was being
\* processed, rows being in the file already, left a state file for it.
C16_Witness ==
    /\ ExitedWithFlush("fatal")
    /\ exitLog.idx = 0
    /\ exitLog.page = 2
    /\ RecordNames(state_file, 0, 2)
    /\ state_file.seed_query_original = "bar"
    /\ Len(csv[ConfiguredCsv]) > Len(InitialCsv[ConfiguredCsv])

(***************************************************************************)
(* Termination and order, checked under SpecLive and Spec                  *)
(***************************************************************************)

\* The loop of lines 356-407 is running.
InLoop == pc \in {"run_loop", "fetch", "pause", "retry"}

\* C17: when every fetch and every pause returns, a Run that has started
\* comes to its end; and each iteration of the loop that does not leave it
\* raises the page number by one, which line 356 bounds by
\* MAX_PAGES_TO_FETCH_PER_QUERY.
C17_RunTerminates ==
    /\ [][ (pc \in {"fetch", "retry"} /\ pc' = "run_loop") =>
              /\ page_number' = page_number + 1
              /\ page_number' <= MAX_PAGES_TO_FETCH_PER_QUERY ]_vars
    /\ InLoop ~> ~InLoop

\* A Run from page 1 in which every page stalled, answered the retry and
\* filled no quota has returned after the last page.
C17_Witness ==
    /\ pc = "after_run"
    /\ Len(fetchLog) = 2 * MAX_PAGES_TO_FETCH_PER_QUERY
    /\ fetchLog[1].page = 1
    /\ page_number = MAX_PAGES_TO_FETCH_PER_QUERY + 1
    /\ items_added_for_this_query < TOP_N_RESULTS_PER_QUERY

\* The step makes a FetchPage call.
FetchCallStep == pc' # "exited" /\ Len(fetchLog') = Len(fetchLog) + 1

\* C18: the for loop goes through the variants one by one and takes the next
\* one only when the Run of the one before has returned; the first call of a
\* Run is for its start page, which is page 1 for every variant after the
\* first of the session; a later call is the retry of the page just found
\* empty, or the first attempt of the page after one whose results have been
\* handed to append_items_to_csv.  So the calls, read as (variant, page),
\* never go back.
C18_SequentialOrder ==
    [][ /\ (InCampaign /\ pc' # "exited") => i' \in {i, i + 1}
        /\ (InCampaign /\ pc' # "exited" /\ i' = i + 1) =>
              pc = "after_run" /\ fetchLog' = <<>>
        /\ FetchCallStep =>
              LET call == fetchLog'[Len(fetchLog')]
              IN  /\ i' = i
                  /\ call.page = page_number
                  /\ IF fetchLog = <<>>
                     THEN /\ call.kind = "first"
                          /\ call.page = IF i = start_processing_idx
                                         THEN resume_details.page_number ELSE 1
                     ELSE LET prev == fetchLog[Len(fetchLog)]
                          IN  \/ /\ call.kind = "retry"
                                 /\ call.page = prev.page
                                 /\ prev.outcome = "empty"
                              \/ /\ call.kind = "first"
                                 /\ call.page = prev.page + 1
                                 /\ prev.outcome = "results"
                                 /\ lastAppend.called => lastAppend.page <= prev.page ]_vars

\* The seed variant saved two items, the quota, in a session that began at
\* its page 1, and the call in progress is for page 1 of the first modifier's
\* variant.
C18_Witness ==
    /\ pc = "fetch"
    /\ start_processing_idx = 0
    /\ i = 1
    /\ firstFetch = [made |-> TRUE, idx |-> -1, page |-> 1]
    /\ fetchLog = << FetchEntry(1, "first") >>
    /\ Len(csv[OUTPUT_CSV_FILENAME]) = Len(InitialCsv[OUTPUT_CSV_FILENAME]) + 2

(***************************************************************************)
(* global_urls_in_csv and the file, checked under Spec                     *)
(***************************************************************************)

\* C19: once startup is over (fresh, resume accepted or resume declined, the
\* state file naming the configured output file or another one), and after
\* every call of append_items_to_csv, global_urls_in_csv holds exactly the
\* urls of the rows of the file that append_items_to_csv writes to.
C19_SetIsImageOfSink ==
    InCampaign => global_urls_in_csv = RowUrls(csv[OUTPUT_CSV_FILENAME])

\* The step accepts a resume whose state file names an output file other than
\* the configured one (lines 440-442).
ResumeOtherFileStep ==
    /\ pc = "resume_prompt"
    /\ user_choice' = "y"
    /\ saved_state.output_csv_filename # ConfiguredCsv

\* C20 as stated: from one step of the process to the next,
\* global_urls_in_csv loses no url.
C20_AsStated ==
    [][ pc' # "exited" => global_urls_in_csv \subseteq global_urls_in_csv' ]_vars

\* C20 as amended: the same, except when a resume is accepted whose state
\* file names another output file: the set is then cleared and loaded from
\* that file.
C20_SetGrowsBetweenReloads ==
    [][ pc' # "exited" =>
           IF ResumeOtherFileStep
           THEN global_urls_in_csv' = RowUrls(csv[OUTPUT_CSV_FILENAME'])
           ELSE global_urls_in_csv \subseteq global_urls_in_csv' ]_vars

\* After a resume with the other output file was accepted, a write failed
\* and the set is still what the other file holds, the url of the configured
\* file being gone.
C20_Witness ==
    /\ user_choice = "y"
    /\ OUTPUT_CSV_FILENAME = OtherCsv
    /\ lastAppend.called /\ lastAppend.failed
    /\ UrlA \in global_urls_in_csv
    /\ RowD.url \notin global_urls_in_csv

(***************************************************************************)
(* The file is only appended to, checked under Spec                        *)
(***************************************************************************)

IsPrefix(s, t) == Len(s) <= Len(t) /\ SubSeq(t, 1, Len(s)) = s

\* C21: no step of the process (an append, a failed write with its rollback,
\* a failed fetch, the stop on a stalled page, Ctrl+C, a fatal error, a save
\* of the state file that fails, the steps of a resumed session) removes or
\* changes a row that is in a CSV file; rows are only added at the end.
C21_SinkAppendOnly ==
    [][ \A f \in CsvFiles : IsPrefix(csv[f], csv'[f]) ]_vars

\* A session that wrote to the file of the earlier run, after its row, ended
\* on a fatal error whose save of the state file failed: the state file of
\* the earlier run and the old and the new rows are there.
C21_Witness ==
    /\ pc = "exited"
    /\ exitLog.cause = "fatal"
    /\ exitLog.write_failed
    /\ state_file.kind = "valid"
    /\ state_file.seed_query_original = EarlierSeed
    /\ Len(csv[ConfiguredCsv]) >= Len(InitialCsv[ConfiguredCsv]) + 2
    /\ IsPrefix(InitialCsv[ConfiguredCsv], csv[ConfiguredCsv])

(***************************************************************************)
(* Declined and damaged state files, checked under Spec                    *)
(***************************************************************************)

\* The session starts from the seed variant of the seed typed in, at page 1,
\* and its first call, if it has made one, was for that page.
StartsFresh ==
    /\ initial_seed_query \in SeedInputs \ {""}
    /\ initial_seed_query # EarlierSeed
    /\ start_processing_idx = 0
    /\ resume_details = [modifier_idx |-> -1, page_number |-> 1]
    /\ firstFetch.made => (firstFetch.idx = -1 /\ firstFetch.page = 1)
    /\ current_run_state_for_pause.seed_query \in {PyNone, initial_seed_query}

\* C22 as stated: after a declined resume the state file is gone and the
\* campaign starts from the seed variant of the new seed at page 1, whatever
\* the declined state file named.
C22_AsStated ==
    (user_choice = "n" /\ InCampaign) => (state_file.kind = "absent" /\ StartsFresh)

\* C22 as amended: the same, unless removing the state file fails, which
\* leaves it in place.
C22_DeclineStartsFresh ==
    (user_choice = "n" /\ InCampaign) =>
        /\ IF exitLog.remove_failed THEN state_file.kind = "valid"
           ELSE state_file.kind = "absent"
        /\ StartsFresh

\* After a declined resume the second variant of the new seed is being
\* fetched, the session having begun at page 1 of the seed variant, and the
\* declined state file is gone.
C22_Witness ==
    /\ user_choice = "n"
    /\ pc = "fetch"
    /\ i = 1
    /\ initial_seed_query = "bar"
    /\ firstFetch = [made |-> TRUE, idx |-> -1, page |-> 1]
    /\ state_file.kind = "absent"
    /\ ~exitLog.remove_failed

\* The step is Ctrl+C or the last handler of lines 545-549 ending the process.
EndsProcess == pc' = "exited"

\* C23: an accepted state file whose modifier index is that of no variant
\* makes the campaign start from the seed variant at page 1; and with a state
\* file that cannot be read, is not a JSON object or lacks a key, the process
\* does not end: it goes on to ask for a seed, using nothing of the file.
C23_StaleOrDamagedStateFile ==
    [][ /\ (/\ pc = "resume_prompt"
            /\ user_choice' = "y"
            /\ saved_state.resume_modifier_idx \notin -1..(NumModifiers - 1)) =>
              /\ start_processing_idx' = 0
              /\ i' = 0
              /\ resume_details'.page_number = 1
        /\ (/\ pc = "load_state"
            /\ state_file.kind \notin {"absent", "valid"}
            /\ exitLog'.cause # "interrupt") =>
              /\ ~EndsProcess
              /\ pc' = "seed_prompt"
              /\ saved_state' = AbsentState ]_vars

(***************************************************************************)
(* No truncation of a page, checked under Spec                             *)
(***************************************************************************)

\* The step is a call of append_items_to_csv by a Run, the write not failing.
PageSaved ==
    /\ pc \in {"fetch", "retry"}
    /\ lastAppend' # lastAppend
    /\ lastAppend'.called
    /\ ~lastAppend'.failed

RefetchOfCheckpointedPage ==
    /\ user_choice = "y"
    /\ saved_state.kind = "valid"
    /\ query_detail.modifier_idx = saved_state.resume_modifier_idx
    /\ page_number = saved_state.resume_page_number

\* C25: against a backend that answers every (query, page) the same way each
\* time and without write failures, a campaign that is interrupted and
\* resumed fetches no page the uninterrupted campaign does not fetch, the
\* checkpointed page apart, and ends with the same urls in the file.
C25_ResumeEquivalence ==
    /\ (pc \in {"fetch", "retry"} /\ ~RefetchOfCheckpointedPage) =>
          << query_detail.modifier_idx, page_number >>
              \in Uninterrupted(initial_seed_query).fetched
    /\ (pc = "done" /\ ~Falsy(initial_seed_query)) =>
          RowUrls(csv[ConfiguredCsv]) = Uninterrupted(initial_seed_query).seen

\* The same of the campaign while nothing has interrupted it.
UninterruptedAsComputed ==
    exitLog.cause \in {"none", "completed"} /\ user_choice # "y"
        => C25_ResumeEquivalence

====
